---- MODULE Spec2Model ----
(***************************************************************************)
(* Model of the updater's cache / state management                         *)
(* (updater/library/src/cache.rs): the in-memory UpdaterState, its         *)
(* state.json backing file, the per-slot payload files and the slot        *)
(* installer download_into_unused_slot.                                    *)
(***************************************************************************)
EXTENDS Integers, Sequences, FiniteSets, TLC

(* ------------------------------ bounds --------------------------------- *)

\* Patch versions the server may offer and callers may report.
Versions == {"1.0.0", "1.0.1"}

\* Largest index a caller passes to set_current_slot.
MaxIndex == 1

\* Number of calls since construction that hist remembers.
HistLen == 2

\* Largest number of entries of a text that reach the disk before a write
\* fails.
MaxTorn == 1

\* Largest number of slots of a state given as an arbitrary input.
MaxSlots == 2

\* The cache directory every call is given.
CacheDir == "cache"

VARIABLES
    state,       \* the in-memory UpdaterState
    state_file,  \* <cache_dir>/state.json on disk
    files,       \* the payload files <cache_dir>/slot_<i>/dlc.vmcode on disk
    last,        \* the last call and what it returned
    hist         \* the first HistLen calls made since the initial state

vars == <<state, state_file, files, last, hist>>

(* ------------------------------ data ----------------------------------- *)

Min(a, b) == IF a < b THEN a ELSE b

\* Option<T> is a sequence of length 0 (None) or 1 (Some).
None == <<>>
Some(x) == <<x>>

\* struct Slot
Slot(path, patch_version) == [path |-> path, patch_version |-> patch_version]

\* Slot::default(): both strings empty (#[derive(Default)])
DefaultSlot == Slot(<<>>, "")

\* impl Default for UpdaterState
DefaultState ==
    [failed_patches |-> <<>>,
     successful_patches |-> <<>>,
     current_slot_index |-> 0,
     slots |-> <<>>]

\* Path::new(cache_dir).join(format!("slot_{}", slot_index)).join("dlc.vmcode")
SlotPath(cache_dir, slot_index) == <<cache_dir, <<"slot_", slot_index>>, "dlc.vmcode">>

\* struct PatchInfo
PatchInfo(path, version) == [path |-> path, version |-> version]

(* --------------------------- state store ------------------------------- *)

is_known_good_patch(self, patch) ==
    \E i \in 1..Len(self.successful_patches) :
        self.successful_patches[i] = patch.version

is_known_bad_patch(self, patch) ==
    \E i \in 1..Len(self.failed_patches) :
        self.failed_patches[i] = patch.version

\* mark_patch_as_bad without the known-good refusal
mark_patch_as_bad_no_refusal(self, patch) ==
    IF is_known_bad_patch(self, patch)
    THEN [self |-> self, warn |-> FALSE]
    ELSE [self |-> [self EXCEPT !.failed_patches = Append(@, patch.version)],
          warn |-> FALSE]

\* mark_patch_as_bad that takes a known-good version back out of
\* successful_patches instead of refusing
mark_patch_as_bad_overrides(self, patch) ==
    IF is_known_bad_patch(self, patch)
    THEN [self |-> self, warn |-> FALSE]
    ELSE [self |-> [self EXCEPT
                       !.failed_patches = Append(@, patch.version),
                       !.successful_patches = SelectSeq(@, LAMBDA v : v # patch.version)],
          warn |-> is_known_good_patch(self, patch)]

\* mark_patch_as_bad without the known-bad check: appends again
mark_patch_as_bad_always_append(self, patch) ==
    IF is_known_good_patch(self, patch)
    THEN [self |-> self, warn |-> TRUE]
    ELSE [self |-> [self EXCEPT !.failed_patches = Append(@, patch.version)],
          warn |-> FALSE]

\* A mark_* call yields the new state and whether warn! was emitted.
mark_patch_as_bad(self, patch) ==
    IF is_known_good_patch(self, patch)
    THEN [self |-> self, warn |-> TRUE]
    ELSE IF is_known_bad_patch(self, patch)
    THEN [self |-> self, warn |-> FALSE]
    ELSE [self |-> [self EXCEPT !.failed_patches = Append(@, patch.version)],
          warn |-> FALSE]

\* mark_patch_as_good without the known-bad refusal
mark_patch_as_good_no_refusal(self, patch) ==
    IF is_known_good_patch(self, patch)
    THEN [self |-> self, warn |-> FALSE]
    ELSE [self |-> [self EXCEPT !.successful_patches = Append(@, patch.version)],
          warn |-> FALSE]

\* mark_patch_as_good without the known-good check: appends again
mark_patch_as_good_always_append(self, patch) ==
    IF is_known_bad_patch(self, patch)
    THEN [self |-> self, warn |-> TRUE]
    ELSE [self |-> [self EXCEPT !.successful_patches = Append(@, patch.version)],
          warn |-> FALSE]

mark_patch_as_good(self, patch) ==
    IF is_known_bad_patch(self, patch)
    THEN [self |-> self, warn |-> TRUE]
    ELSE IF is_known_good_patch(self, patch)
    THEN [self |-> self, warn |-> FALSE]
    ELSE [self |-> [self EXCEPT !.successful_patches = Append(@, patch.version)],
          warn |-> FALSE]

\* The result of current_patch(): None, Some(PatchInfo), or a panic from an
\* out-of-bounds index into slots.
PatchNone == [tag |-> "None", path |-> <<>>, version |-> ""]
PatchSome(slot) == [tag |-> "Some", path |-> slot.path, version |-> slot.patch_version]
PatchPanic == [tag |-> "panic", path |-> <<>>, version |-> ""]

\* self.slots[i] with usize i (0-based): panics when i is out of bounds
IndexSlots(self, i) ==
    IF i + 1 \in DOMAIN self.slots THEN PatchSome(self.slots[i + 1]) ELSE PatchPanic

\* current_patch without the bounds check of the index
current_patch_unchecked_index(self) ==
    IF self.slots = <<>>
    THEN PatchNone
    ELSE IndexSlots(self, self.current_slot_index)

current_patch(self) ==
    IF self.slots = <<>> \/ self.current_slot_index >= Len(self.slots)
    THEN PatchNone
    ELSE IndexSlots(self, self.current_slot_index)

\* unused_slot without the rotation: always the first slot
unused_slot_always_first(self) == 0

\* unused_slot without the case of no slots yet
unused_slot_no_empty_case(self) ==
    IF self.current_slot_index = 0 THEN 1 ELSE 0

unused_slot(self) ==
    IF self.slots = <<>> THEN 0
    ELSE IF self.current_slot_index = 0 THEN 1
    ELSE 0

\* Vec::resize(new_len, Slot::default()) when new_len exceeds the length
Resize(slots, new_len) ==
    slots \o [i \in 1..(new_len - Len(slots)) |-> DefaultSlot]

\* set_slot without the assert!: pads with Slot::default()
set_slot_no_assert(self, index, slot) ==
    [panicked |-> FALSE,
     self |-> [self EXCEPT !.slots = [Resize(@, index + 1) EXCEPT ![index + 1] = slot]]]

\* set_slot yields the new state, or panicked when the assert! fails.
set_slot(self, index, slot) ==
    IF Len(self.slots) < index + 1
    THEN IF Len(self.slots) = index
         THEN [panicked |-> FALSE,
               self |-> [self EXCEPT !.slots = [Resize(@, index + 1) EXCEPT ![index + 1] = slot]]]
         ELSE [panicked |-> TRUE, self |-> self]
    ELSE [panicked |-> FALSE,
          self |-> [self EXCEPT !.slots[index + 1] = slot]]

\* set_current_slot that ignores an index beyond the slots
set_current_slot_checked(self, index) ==
    IF index < Len(self.slots) THEN [self EXCEPT !.current_slot_index = index] ELSE self

set_current_slot(self, index) == [self EXCEPT !.current_slot_index = index]

(* ---------------------------- persistence ------------------------------ *)

\* serde_json::to_writer_pretty of the derived Serialize: one entry per
\* field, in declaration order, between the braces of the object; a Slot is
\* an object of its two fields.
SerializeSlot(slot) == <<<<"path", slot.path>>, <<"patch_version", slot.patch_version>>>>

Serialize(self) ==
    << "{",
       <<"failed_patches", self.failed_patches>>,
       <<"successful_patches", self.successful_patches>>,
       <<"current_slot_index", self.current_slot_index>>,
       <<"slots", [i \in 1..Len(self.slots) |-> SerializeSlot(self.slots[i])]>>,
       "}" >>

\* The field names of the derived Deserialize, in the order Serialize writes.
FieldNames == <<"failed_patches", "successful_patches", "current_slot_index", "slots">>

DeserializeSlot(entry) == Slot(entry[1][2], entry[2][2])

\* serde_json::from_reader: an error unless the text is one complete object
\* holding every field.
Deserialize(content) ==
    IF /\ Len(content) = Len(FieldNames) + 2
       /\ content[1] = "{"
       /\ content[Len(content)] = "}"
       /\ \A k \in 1..Len(FieldNames) : content[k + 1][1] = FieldNames[k]
    THEN [ok |-> TRUE,
          self |-> [failed_patches |-> content[2][2],
                    successful_patches |-> content[3][2],
                    current_slot_index |-> content[4][2],
                    slots |-> [i \in 1..Len(content[5][2]) |->
                                  DeserializeSlot(content[5][2][i])]]]
    ELSE [ok |-> FALSE, self |-> DefaultState]

\* A file of the disk: absent, or its content.
NoFile == [exists |-> FALSE, content |-> <<>>]
FileOf(content) == [exists |-> TRUE, content |-> content]

\* UpdaterState::load: the outcome and the state read.
load(file) ==
    IF ~file.exists
    THEN [result |-> "NotFound", self |-> DefaultState]
    ELSE IF ~Deserialize(file.content).ok
    THEN [result |-> "DeserializeError", self |-> DefaultState]
    ELSE [result |-> "Ok", self |-> Deserialize(file.content).self]

\* The proper prefixes of a text: what a write that fails part-way leaves.
TornWrites(content) ==
    {SubSeq(content, 1, k) : k \in 0..Min(MaxTorn, Len(content) - 1)}

\* UpdaterState::save: the set of outcomes, each the result returned and the
\* file left on disk.
\*  - create_dir_all or File::create fails: Err, the file is untouched;
\*  - File::create truncates the file, and the text is written in full: Ok;
\*  - the write fails part-way.  The text sits in the BufWriter until it is
\*    flushed: a flush forced inside to_writer_pretty (a text larger than the
\*    buffer) returns the error; the flush of the drop at the end of save
\*    discards it, and save returns Ok.
save(self, file) ==
    {[result |-> "IOError", file |-> file]}
    \cup {[result |-> "Ok", file |-> FileOf(Serialize(self))]}
    \cup {[result |-> r, file |-> FileOf(t)] :
             r \in {"Ok", "IOError"}, t \in TornWrites(Serialize(self))}

(* ---------------------------- slot installer --------------------------- *)

\* network::PatchCheckResponse: patch is an Option of {download_url, version}.
Url(version) == <<"http://x/", version>>
Patch(version) == [download_url |-> Url(version), version |-> version]
Responses == {[patch |-> None]} \cup {[patch |-> Some(Patch(v))] : v \in Versions}

\* The bytes the server holds at a url.
PayloadOf(url) == <<url>>

\* The payload files of the two slots the installer writes.
PayloadPaths == {SlotPath(CacheDir, i) : i \in 0..1}

\* network::download_file_to_path: the set of outcomes, each whether it
\* returned Ok and the payload files it leaves: the payload at the
\* destination on Ok, the destination as it was on an error.
download_file_to_path(url, path, fs) ==
    {[ok |-> TRUE, files |-> [fs EXCEPT ![path] = FileOf(PayloadOf(url))]]}
    \cup {[ok |-> FALSE, files |-> fs]}

\* What a call of the installer leaves: the result returned, the state in
\* memory, the disk, and whether the download collaborator was invoked.
Outcome(result, self, fs, file, downloaded) ==
    [result |-> result, self |-> self, files |-> fs, state_file |-> file,
     downloaded |-> downloaded]

\* The steps of download_into_slot after a successful download.
CommitSlot(cache_dir, patch, self, slot_index, fs, file) ==
    LET path == SlotPath(cache_dir, slot_index)
        set == set_slot(self, slot_index, Slot(path, patch.version))
    IN  IF set.panicked
        THEN {Outcome("panic", self, fs, file, TRUE)}
        ELSE {Outcome(sv.result, set.self, fs, sv.file, TRUE) :
                 sv \in save(set.self, file)}

download_into_slot(cache_dir, patch_check_response, self, slot_index, fs, file) ==
    LET path == SlotPath(cache_dir, slot_index)
    IN  IF patch_check_response.patch = None
        THEN \* Option::unwrap of None
             {Outcome("panic", self, fs, file, FALSE)}
        ELSE LET patch == patch_check_response.patch[1]
             IN  UNION {IF d.ok
                        THEN CommitSlot(cache_dir, patch, self, slot_index, d.files, file)
                        ELSE {Outcome("DownloadError", self, d.files, file, TRUE)} :
                           d \in download_file_to_path(patch.download_url, path, fs)}

\* download_into_unused_slot: the outcomes of download_into_slot, each with
\* the value returned on Ok.
download_into_unused_slot(cache_dir, patch_check_response, self, fs, file) ==
    LET slot_index == unused_slot(self)
    IN  {[outcome |-> o,
          ret |-> IF o.result = "Ok" THEN Some(slot_index) ELSE None] :
            o \in download_into_slot(cache_dir, patch_check_response, self,
                                     slot_index, fs, file)}

(* ------------------------------ the calls ------------------------------ *)

\* The patches callers report on.
Patches == {PatchInfo(SlotPath(CacheDir, 0), v) : v \in Versions}

\* The last call: which operation it was and what it returned: Ok, an error
\* or a panic; the index or the patch it returned, if any; whether it emitted
\* warn!; whether it invoked the download collaborator.
Returned(op, result, ret, patch, warn, downloaded) ==
    [op |-> op, result |-> result, ret |-> ret, patch |-> patch, warn |-> warn,
     downloaded |-> downloaded]

\* A call as hist remembers it.
Call(op, arg, result) == [op |-> op, arg |-> arg, result |-> result]

\* A panic aborts the process, and so does a crash: no call follows it.
Alive == last.result \notin {"panic", "crash"}

Remember(call) ==
    hist' = IF ~hist.more /\ Len(hist.calls) < HistLen
            THEN [calls |-> Append(hist.calls, call), more |-> FALSE]
            ELSE [calls |-> <<>>, more |-> TRUE]

Init ==
    /\ state = DefaultState
    /\ state_file = NoFile
    /\ files = [p \in PayloadPaths |-> NoFile]
    /\ last = Returned("new", "Ok", None, PatchNone, FALSE, FALSE)
    /\ hist = [calls |-> <<>>, more |-> FALSE]

MarkPatchAsGood(patch) ==
    /\ Alive
    /\ state' = mark_patch_as_good(state, patch).self
    /\ last' = Returned("mark_patch_as_good", "Ok", None, PatchNone,
                        mark_patch_as_good(state, patch).warn, FALSE)
    /\ Remember(Call("mark_patch_as_good", patch, "Ok"))
    /\ UNCHANGED <<state_file, files>>

MarkPatchAsBad(patch) ==
    /\ Alive
    /\ state' = mark_patch_as_bad(state, patch).self
    /\ last' = Returned("mark_patch_as_bad", "Ok", None, PatchNone,
                        mark_patch_as_bad(state, patch).warn, FALSE)
    /\ Remember(Call("mark_patch_as_bad", patch, "Ok"))
    /\ UNCHANGED <<state_file, files>>

SetCurrentSlot(index) ==
    /\ Alive
    /\ state' = set_current_slot(state, index)
    /\ last' = Returned("set_current_slot", "Ok", None, PatchNone, FALSE, FALSE)
    /\ Remember(Call("set_current_slot", index, "Ok"))
    /\ UNCHANGED <<state_file, files>>

Save ==
    /\ Alive
    /\ \E sv \in save(state, state_file) :
          /\ state_file' = sv.file
          /\ last' = Returned("save", sv.result, None, PatchNone, FALSE, FALSE)
          /\ Remember(Call("save", None, sv.result))
    /\ UNCHANGED <<state, files>>

\* The caller replaces its state by the one loaded; an error leaves it alone.
Load ==
    /\ Alive
    /\ state' = IF load(state_file).result = "Ok" THEN load(state_file).self ELSE state
    /\ last' = Returned("load", load(state_file).result, None, PatchNone, FALSE, FALSE)
    /\ Remember(Call("load", None, load(state_file).result))
    /\ UNCHANGED <<state_file, files>>

DownloadIntoUnusedSlot(patch_check_response) ==
    /\ Alive
    /\ \E r \in download_into_unused_slot(CacheDir, patch_check_response, state,
                                          files, state_file) :
          /\ state' = r.outcome.self
          /\ files' = r.outcome.files
          /\ state_file' = r.outcome.state_file
          /\ last' = Returned("download_into_unused_slot", r.outcome.result,
                              r.ret, PatchNone, FALSE, r.outcome.downloaded)
          /\ Remember(Call("download_into_unused_slot", patch_check_response,
                           r.outcome.result))

Next ==
    \/ \E patch \in Patches : MarkPatchAsGood(patch)
    \/ \E patch \in Patches : MarkPatchAsBad(patch)
    \/ \E index \in 0..MaxIndex : SetCurrentSlot(index)
    \/ \E response \in Responses : DownloadIntoUnusedSlot(response)
    \/ Save
    \/ Load

Spec == Init /\ [][Next]_vars

(* ----------------- any UpdaterState, as read from a file ---------------- *)

\* The slots a state file may hold: placeholders and installed patches.
AnySlots ==
    {DefaultSlot} \cup {Slot(SlotPath(CacheDir, i), v) : i \in 0..1, v \in Versions}

SeqsUpTo(S, n) == UNION {[1..k -> S] : k \in 0..n}

\* Every UpdaterState within the bounds, the patch lists not necessarily
\* disjoint and the index not necessarily that of a slot.
AnyStates ==
    [failed_patches : SeqsUpTo({"1.0.0"}, 1),
     successful_patches : SeqsUpTo({"1.0.0"}, 1),
     current_slot_index : 0..(MaxIndex + 1),
     slots : SeqsUpTo(AnySlots, MaxSlots)]

InitAny ==
    /\ state \in AnyStates
    /\ state_file = NoFile
    /\ files = [p \in PayloadPaths |-> NoFile]
    /\ last = Returned("new", "Ok", None, PatchNone, FALSE, FALSE)
    /\ hist = [calls |-> <<>>, more |-> FALSE]

CurrentPatch ==
    /\ Alive
    /\ LET result == IF current_patch(state) = PatchPanic THEN "panic" ELSE "Ok"
       IN  /\ last' = Returned("current_patch", result, None, current_patch(state),
                            FALSE, FALSE)
           /\ Remember(Call("current_patch", None, result))
    /\ UNCHANGED <<state, state_file, files>>

UnusedSlot ==
    /\ Alive
    /\ last' = Returned("unused_slot", "Ok", Some(unused_slot(state)), PatchNone,
                        FALSE, FALSE)
    /\ Remember(Call("unused_slot", None, "Ok"))
    /\ UNCHANGED <<state, state_file, files>>

NextAny ==
    \/ CurrentPatch
    \/ UnusedSlot
    \/ \E index \in 0..MaxIndex : SetCurrentSlot(index)

SpecAny == InitAny /\ [][NextAny]_vars

(* ------------------- set_slot on any UpdaterState ----------------------- *)

\* The indices set_slot is called with: those of the slots, the next one
\* and the one beyond it.
SlotIndices == 0..(MaxSlots + 1)

\* set_slot(index, slot); hist keeps the call without its argument.  The
\* number of slots is capped at MaxSlots + 1.
SetSlot(index, slot) ==
    /\ Alive
    /\ Len(state.slots) <= MaxSlots
    /\ LET set == set_slot(state, index, slot)
           result == IF set.panicked THEN "panic" ELSE "Ok"
       IN  /\ state' = set.self
           /\ last' = Returned("set_slot", result, None, PatchNone, FALSE, FALSE)
           /\ Remember(Call("set_slot", None, result))
    /\ UNCHANGED <<state_file, files>>

NextSetSlot == \E index \in SlotIndices, slot \in AnySlots : SetSlot(index, slot)

SpecSetSlot == InitAny /\ [][NextSetSlot]_vars

(* -------------------- installs on any UpdaterState ---------------------- *)

\* Installs one after the other, current_slot_index being any from the start.
NextInstall == \E response \in Responses : DownloadIntoUnusedSlot(response)

\* Every UpdaterState within the bounds as to slots and current_slot_index;
\* the patch lists, which unused_slot and set_slot do not read, are empty.
InstallStates ==
    {self \in AnyStates : self.failed_patches = <<>> /\ self.successful_patches = <<>>}

InitInstall ==
    /\ state \in InstallStates
    /\ state_file = NoFile
    /\ files = [p \in PayloadPaths |-> NoFile]
    /\ last = Returned("new", "Ok", None, PatchNone, FALSE, FALSE)
    /\ hist = [calls |-> <<>>, more |-> FALSE]

SpecInstall == InitInstall /\ [][NextInstall]_vars

(* ----------------------- a crash during save ---------------------------- *)

\* The process stops inside save: before File::create (the file is as it
\* was), after File::create truncated it and before the whole text reached
\* it (a proper prefix of the text, possibly empty), or after the text was
\* written.
SaveCrash ==
    /\ Alive
    /\ \E file \in {state_file, FileOf(Serialize(state))}
                    \cup {FileOf(t) : t \in TornWrites(Serialize(state))} :
          state_file' = file
    /\ last' = Returned("save", "crash", None, PatchNone, FALSE, FALSE)
    /\ Remember(Call("save", None, "crash"))
    /\ UNCHANGED <<state, files>>

NextCrash ==
    \/ \E patch \in Patches : MarkPatchAsGood(patch)
    \/ \E index \in 0..MaxIndex : SetCurrentSlot(index)
    \/ Save
    \/ SaveCrash

SpecCrash == Init /\ [][NextCrash]_vars

(* ------------------------------ properties ----------------------------- *)

Range(seq) == {seq[i] : i \in 1..Len(seq)}

\* The calls hist holds are the whole history since the initial state.
WholeHistory == ~hist.more

\* The n-th call since the initial state, when hist holds it.
Called(n, op) == WholeHistory /\ Len(hist.calls) >= n /\ hist.calls[n].op = op

\* C1: from a fresh state, after any sequence of mark_patch_as_good,
\* mark_patch_as_bad, set_current_slot and download_into_unused_slot calls,
\* no version is in both successful_patches and failed_patches.
C1_Disjoint ==
    Range(state.successful_patches) \cap Range(state.failed_patches) = {}

\* C1 witness: both lists hold a version and the last call was a
\* mark_patch_as_good refused with a warning, the version being known bad.
C1_Witness ==
    /\ last.op = "mark_patch_as_good"
    /\ last.warn
    /\ state.successful_patches # <<>>
    /\ state.failed_patches # <<>>

\* C2 (as claimed): current_patch() never returns a patch whose version is
\* in failed_patches.
C2_FailedNeverCurrent ==
    current_patch(state).tag = "Some" =>
        current_patch(state).version \notin Range(state.failed_patches)

\* C4: a download_into_unused_slot call made while current_patch() returns
\* some patch leaves current_patch() as it was, whether the call succeeds or
\* fails, and writes neither slots[current_slot_index] nor its payload file.
C4_ActiveSlotKept ==
    [][(last'.op = "download_into_unused_slot" /\ current_patch(state).tag = "Some") =>
          /\ current_patch(state') = current_patch(state)
          /\ unused_slot(state) # state.current_slot_index
          /\ state'.slots[state.current_slot_index + 1]
                 = state.slots[state.current_slot_index + 1]
          /\ files'[current_patch(state).path] = files[current_patch(state).path]
      ]_vars

\* C4 witness: an install into slot 1 has returned Ok while slot 0 is the
\* active slot and holds a patch.
C4_Witness ==
    /\ last.op = "download_into_unused_slot"
    /\ last.result = "Ok"
    /\ last.ret = Some(1)
    /\ state.current_slot_index = 0
    /\ current_patch(state).tag = "Some"

\* C5 (as claimed): with a response carrying no patch descriptor,
\* download_into_unused_slot returns the MalformedResponse error, does not
\* invoke the download collaborator and leaves memory and disk unchanged.
C5_MalformedResponse ==
    [][DownloadIntoUnusedSlot([patch |-> None]) =>
          /\ last'.result = "MalformedResponse"
          /\ ~last'.downloaded
          /\ state' = state
          /\ state_file' = state_file
          /\ files' = files
      ]_vars

\* C6 (as claimed): from a fresh state a successful download of version v
\* installs into slot 0 and leaves current_slot_index untouched;
\* current_patch() is none until set_current_slot(0) is called, and after it
\* returns {path: <dir>/slot_0/<payload>, version: v}.
C6_InstallScenario ==
    (Called(1, "download_into_unused_slot") /\ hist.calls[1].result = "Ok") =>
        LET v == hist.calls[1].arg.patch[1].version
            installed == PatchSome(Slot(SlotPath(CacheDir, 0), v))
        IN  /\ Len(hist.calls) = 1 =>
                /\ state.slots = <<Slot(SlotPath(CacheDir, 0), v)>>
                /\ state.current_slot_index = 0
                /\ current_patch(state) = PatchNone
            /\ (Called(2, "set_current_slot") /\ Len(hist.calls) = 2
                    /\ hist.calls[2].arg = 0) =>
                current_patch(state) = installed

\* C8 (as claimed): unused_slot() returns 0 on a fresh state, 1 after then
\* calling set_current_slot(0), and 0 after then calling set_current_slot(1).
C8_RotationFromFresh ==
    /\ (WholeHistory /\ hist.calls = <<>>) => unused_slot(state) = 0
    /\ (Called(1, "set_current_slot") /\ hist.calls[1].arg = 0) =>
          /\ Len(hist.calls) = 1 => unused_slot(state) = 1
          /\ (Called(2, "set_current_slot") /\ Len(hist.calls) = 2
                  /\ hist.calls[2].arg = 1) =>
                unused_slot(state) = 0

\* C8 (amended): unused_slot() returns 0 on a fresh state; after
\* set_current_slot(0) it returns 1 when a slot is installed and still 0
\* when none is; after set_current_slot(1) it returns 0.
C8_Rotation ==
    [][/\ (WholeHistory /\ hist.calls = <<>>) => unused_slot(state) = 0
       /\ SetCurrentSlot(0) =>
             unused_slot(state') = IF state.slots = <<>> THEN 0 ELSE 1
       /\ SetCurrentSlot(1) => unused_slot(state') = 0
      ]_vars

\* C8 witness: a slot was installed, then set_current_slot(0) was called, and
\* unused_slot() is 1.
C8_Witness ==
    /\ Called(1, "download_into_unused_slot") /\ hist.calls[1].result = "Ok"
    /\ Called(2, "set_current_slot") /\ hist.calls[2].arg = 0
    /\ Len(hist.calls) = 2
    /\ unused_slot(state) = 1

\* The last call was op and returned result.
LastCalled(op, result) == last.op = op /\ last.result = result

\* C9 (as claimed): a save that returned Ok followed by a load: the load
\* returns Ok and the state loaded equals the state saved in every field.
C9_RoundTrip ==
    [][(LastCalled("save", "Ok") /\ last'.op = "load") =>
          /\ last'.result = "Ok"
          /\ state' = state
      ]_vars

\* The states a reader is handed: the one in memory and the one the backing
\* file loads as.
ReadableStates ==
    {state} \cup {load(state_file).self : x \in {y \in {1} : load(state_file).result = "Ok"}}

\* A slot that records a payload: every slot but the default placeholder.
NonEmpty(slot) == slot # DefaultSlot

\* C10 (as claimed): every non-empty slot of the state in memory, and of the
\* state the backing file loads as, names a path whose file on disk is the
\* completely downloaded payload of the recorded patch_version.
C10_SlotsNameWrittenPayloads ==
    \A s \in ReadableStates : \A i \in 1..Len(s.slots) :
        NonEmpty(s.slots[i]) =>
            /\ s.slots[i].path \in DOMAIN files
            /\ files[s.slots[i].path] = FileOf(PayloadOf(Url(s.slots[i].patch_version)))

\* C3: for every UpdaterState, current_patch() does not panic; it returns
\* none when slots is empty or current_slot_index >= len(slots), and
\* otherwise exactly the {path, version} of slots[current_slot_index].
C3_CurrentPatchTotal ==
    /\ current_patch(state) # PatchPanic
    /\ (state.slots = <<>> \/ state.current_slot_index >= Len(state.slots)) =>
          current_patch(state) = PatchNone
    /\ (state.slots # <<>> /\ state.current_slot_index < Len(state.slots)) =>
          /\ current_patch(state).tag = "Some"
          /\ current_patch(state).path = state.slots[state.current_slot_index + 1].path
          /\ current_patch(state).version
                 = state.slots[state.current_slot_index + 1].patch_version
    /\ LastCalled("current_patch", "Ok") => last.patch = current_patch(state)

\* C3 witness: current_patch() was called with slots present and the index
\* beyond them, and returned none.
C3_Witness ==
    /\ LastCalled("current_patch", "Ok")
    /\ state.slots # <<>>
    /\ state.current_slot_index >= Len(state.slots)
    /\ last.patch = PatchNone

\* C7 (as claimed): for every UpdaterState, one with no slots included,
\* unused_slot() is 0 or 1 and differs from current_slot_index.
C7_UnusedSlotNotCurrent ==
    /\ unused_slot(state) \in {0, 1}
    /\ unused_slot(state) # state.current_slot_index

\* C7 (amended): for every UpdaterState unused_slot() is 0 or 1; it differs
\* from current_slot_index when there is a slot, and is 0 when there is none.
C7_UnusedSlot ==
    /\ unused_slot(state) \in {0, 1}
    /\ state.slots # <<>> => unused_slot(state) # state.current_slot_index
    /\ state.slots = <<>> => unused_slot(state) = 0
    /\ LastCalled("unused_slot", "Ok") => last.ret = Some(unused_slot(state))

\* C7 witness: unused_slot() was called on a state with no slots and
\* current_slot_index 0, and returned 0.
C7_Witness ==
    /\ LastCalled("unused_slot", "Ok")
    /\ state.slots = <<>>
    /\ state.current_slot_index = 0
    /\ last.ret = Some(0)

\* C11: for every state and patch p, a second mark_patch_as_good(p) leaves
\* the whole state as the first call left it, and likewise a second
\* mark_patch_as_bad(p).
C11_Idempotent ==
    [][\A p \in Patches :
          /\ MarkPatchAsGood(p) => mark_patch_as_good(state', p).self = state'
          /\ MarkPatchAsBad(p) => mark_patch_as_bad(state', p).self = state'
      ]_vars

\* C11 witness: the first two calls were mark_patch_as_good of the same
\* patch, and successful_patches holds its version once.
C11_Witness ==
    /\ Called(1, "mark_patch_as_good")
    /\ Called(2, "mark_patch_as_good")
    /\ Len(hist.calls) = 2
    /\ hist.calls[1].arg = hist.calls[2].arg
    /\ state.successful_patches = <<hist.calls[1].arg.version>>

\* C12: mark_patch_as_good(p) with p.version in failed_patches leaves the
\* entire state unchanged, emits a warning and returns normally; so does
\* mark_patch_as_bad(p) with p.version in successful_patches.
C12_ConflictRefused ==
    [][\A p \in Patches :
          /\ (MarkPatchAsGood(p) /\ p.version \in Range(state.failed_patches)) =>
                /\ state' = state
                /\ last'.warn
                /\ last'.result = "Ok"
          /\ (MarkPatchAsBad(p) /\ p.version \in Range(state.successful_patches)) =>
                /\ state' = state
                /\ last'.warn
                /\ last'.result = "Ok"
      ]_vars

\* C12 witness: a mark_patch_as_bad of a known-good version was refused with
\* a warning.
C12_Witness ==
    /\ last.op = "mark_patch_as_bad"
    /\ last.warn
    /\ state.successful_patches # <<>>

\* The operations of the store and the installer on a state (load makes a
\* new one).
StoreOps ==
    {"mark_patch_as_good", "mark_patch_as_bad", "set_current_slot",
     "download_into_unused_slot", "save"}

\* seq continues old: no entry removed or moved.
Extends(seq, old) == Len(seq) >= Len(old) /\ SubSeq(seq, 1, Len(old)) = old

\* C13: no mark_*, set_current_slot, download_into_unused_slot or save call
\* removes an entry from successful_patches or failed_patches: a version once
\* in a list stays in it.
C13_Permanent ==
    [][last'.op \in StoreOps =>
          /\ Extends(state'.successful_patches, state.successful_patches)
          /\ Extends(state'.failed_patches, state.failed_patches)
      ]_vars

\* C13 witness: both lists hold a version and an install has since returned
\* Ok.
C13_Witness ==
    /\ LastCalled("download_into_unused_slot", "Ok")
    /\ state.successful_patches # <<>>
    /\ state.failed_patches # <<>>

NoDuplicates(seq) == \A i, j \in 1..Len(seq) : seq[i] = seq[j] => i = j

\* C20: from a fresh state, neither successful_patches nor failed_patches
\* ever holds a version twice, and no mark_* call changes slots or
\* current_slot_index.
C20_SetSemantics ==
    [][/\ NoDuplicates(state.successful_patches) /\ NoDuplicates(state.failed_patches)
       /\ NoDuplicates(state'.successful_patches) /\ NoDuplicates(state'.failed_patches)
       /\ last'.op \in {"mark_patch_as_good", "mark_patch_as_bad"} =>
             /\ state'.slots = state.slots
             /\ state'.current_slot_index = state.current_slot_index
      ]_vars

\* C20 witness: failed_patches holds two versions after a repeated
\* mark_patch_as_bad, with a slot installed.
C20_Witness ==
    /\ last.op = "mark_patch_as_bad"
    /\ ~last.warn
    /\ Len(state.failed_patches) = 2
    /\ state.slots # <<>>

Max(a, b) == IF a >= b THEN a ELSE b

\* C14: on a state with n slots, set_slot(index, slot) with index > n fails
\* its assertion and changes nothing (no filler slot is inserted); with
\* index <= n it returns with max(n, index + 1) slots, slot at index, and
\* every other slot and field as before.
C14_SetSlot ==
    [][\A index \in SlotIndices, slot \in AnySlots :
          SetSlot(index, slot) =>
             LET n == Len(state.slots)
             IN  IF index > n
                 THEN /\ last'.result = "panic"
                      /\ state' = state
                 ELSE /\ last'.result = "Ok"
                      /\ Len(state'.slots) = Max(n, index + 1)
                      /\ state'.slots[index + 1] = slot
                      /\ \A i \in 1..n : i # index + 1 => state'.slots[i] = state.slots[i]
                      /\ state' = [state EXCEPT !.slots = state'.slots]
      ]_vars

\* C14 witness: set_slot appended a slot at index n.
C14_Witness ==
    /\ LastCalled("set_slot", "Ok")
    /\ Called(1, "set_slot")
    /\ Len(hist.calls) = 1
    /\ Len(state.slots) = MaxSlots + 1
    /\ state.slots[MaxSlots + 1] # DefaultSlot

\* C15: set_current_slot(index) changes current_slot_index in memory and
\* nothing else: slots and both lists are as before, and the state file is
\* untouched, so a load gives what it gave before the call.
C15_SetCurrentSlotInMemory ==
    [][\A index \in 0..MaxIndex :
          SetCurrentSlot(index) =>
             /\ state' = [state EXCEPT !.current_slot_index = index]
             /\ state_file' = state_file
             /\ files' = files
             /\ load(state_file') = load(state_file)
      ]_vars

\* C15 witness: after a save and a set_current_slot, the file still loads
\* with the index saved, which is no longer that in memory.
C15_Witness ==
    /\ Called(1, "save")
    /\ Called(2, "set_current_slot")
    /\ Len(hist.calls) = 2
    /\ load(state_file).result = "Ok"
    /\ load(state_file).self.current_slot_index # state.current_slot_index

\* C16: a download_into_unused_slot call that returns an error (the download
\* or the save failed) made no partial commit: the in-memory state and the
\* state file are what they were before the call.
C16_NoPartialCommit ==
    [][(/\ last'.op = "download_into_unused_slot"
        /\ last'.result \in {"DownloadError", "IOError"}) =>
          /\ state' = state
          /\ state_file' = state_file
      ]_vars

\* C17: a download_into_unused_slot call that returns Ok returns the index
\* unused_slot() gave before the call, has put the path of that slot and the
\* patch_version of the response into that slot, has left current_slot_index
\* and both lists alone, and the state file loads as the in-memory state.
C17_CommitOnSuccess ==
    [][\A version \in Versions :
          (/\ DownloadIntoUnusedSlot([patch |-> Some(Patch(version))])
           /\ last'.result = "Ok") =>
             LET i == unused_slot(state)
             IN  /\ last'.ret = Some(i)
                 /\ Len(state'.slots) > i
                 /\ state'.slots[i + 1] = Slot(SlotPath(CacheDir, i), version)
                 /\ state'.current_slot_index = state.current_slot_index
                 /\ state'.failed_patches = state.failed_patches
                 /\ state'.successful_patches = state.successful_patches
                 /\ load(state_file').result = "Ok"
                 /\ load(state_file').self = state'
      ]_vars

\* C18: when the process crashes during save over a state file that loads,
\* a load of the file left behind succeeds and yields the state the file held
\* before or the state being saved.
C18_AtomicSave ==
    [][(/\ last'.op = "save"
        /\ last'.result = "crash"
        /\ load(state_file).result = "Ok") =>
          /\ load(state_file').result = "Ok"
          /\ load(state_file').self \in {load(state_file).self, state}
      ]_vars

\* C19: for every UpdaterState, whatever its slots and current_slot_index,
\* download_into_unused_slot calls set_slot with an index no greater than the
\* number of slots, so the assertion of set_slot never fails, and an install
\* never takes the number of slots beyond two (or beyond what it was).
C19_AssertUnreachable ==
    [][/\ unused_slot(state) <= Len(state.slots)
       /\ unused_slot(state') <= Len(state'.slots)
       /\ last'.op = "download_into_unused_slot" =>
             /\ ~(last'.result = "panic" /\ last'.downloaded)
             /\ ~set_slot(state, unused_slot(state), DefaultSlot).panicked
             /\ Len(state'.slots) <= Max(Len(state.slots), 2)
      ]_vars

\* C19 witness: an install returned Ok on a state that had no slots and a
\* current_slot_index no set_current_slot call of the model gives.
C19_Witness ==
    /\ LastCalled("download_into_unused_slot", "Ok")
    /\ Len(hist.calls) = 1
    /\ ~hist.more
    /\ state.current_slot_index > MaxIndex
    /\ Len(state.slots) = 1

====
